---- MODULE Spec2Model ----
(***************************************************************************)
(* Gemini Insights (custom_components/gemini_insights): the coordinator's  *)
(* update cycle (sensor.py), the Gateway client (gemini_client.py), the    *)
(* action-schema builder and the time-bucket aggregator (preprocessor.py). *)
(*                                                                         *)
(* Conventions.  A Python value that may be missing (dict.get, None) is a  *)
(* set with zero or one element.  A Python string built by an f-string is  *)
(* the sequence of its parts, so a fixed string is a one-element sequence. *)
(* A dict is a function from its keys.  Confidences and thresholds are     *)
(* hundredths (0.7 is 70).                                                 *)
(***************************************************************************)
EXTENDS Integers, Sequences, FiniteSets, TLC

VARIABLES
    options,             \* the options dict captured by the closure (sensor.py:45)
    patched,             \* TRUE when GeminiClient is the tests' stub (tests/test_sensor.py:49)
    data,                \* coordinator.data
    last_update_success, \* coordinator.last_update_success
    sensors_added,       \* async_add_entities has run (sensor.py:251)
    pc,                  \* where the update cycle stands
    cycle,               \* number of cycles started
    entity_ids,          \* sensor.py:74, of the current or last cycle
    idx,                 \* position of the loop of sensor.py:85
    entity_data_map,     \* sensor.py:82
    entity_data_json,    \* sensor.py:180
    gw,                  \* what the Gateway did in the current or last cycle
    insights,            \* sensor.py:209, the value get_insights returned
    svc_calls,           \* hass.services.async_call invocations of the cycle
    raised,              \* exception the update method propagated in the cycle
    catalog,             \* service.async_get_all_descriptions(hass)
    schema_out,          \* the list async_get_action_schema serialises
    stat_rows,           \* statistics_during_period rows, per entity
    stats,               \* what _compute_long_term_stats returned
    agg_raised,          \* exception _compute_long_term_stats let out
    raw_rows,            \* the rows the last call of _inner read, per entity
    stat_fail,           \* entity whose statistics_during_period call raised
    hist_store,          \* recorder: the significant states of the last 6 h, per entity
    recent,              \* what _fetch_recent_events returned
    recent_call,         \* the last call of _fetch_recent_events: what it read, what failed
    recent_raised,       \* exception _fetch_recent_events let out
    entry_data,          \* ConfigEntry.data
    entry_options,       \* ConfigEntry.options
    entry_state,         \* the host's state of the config entry
    domain_data,         \* hass.data[DOMAIN][entry.entry_id], when present
    platform,            \* what the last run of sensor.async_setup_entry did
    setups,              \* number of runs of __init__.async_setup_entry
    entries,             \* the config entries the user step has created
    flow_result,         \* what the last step of the user flow returned
    registry,            \* the entity registry the options flow reads
    submitted,           \* the user_input of the last options-flow submission
    saved_options        \* the data the options flow handed to async_create_entry

cycleVars == <<options, patched, data, last_update_success, sensors_added, pc,
               cycle, entity_ids, idx, entity_data_map, entity_data_json, gw,
               insights, svc_calls, raised>>
schemaVars == <<catalog, schema_out>>
aggVars == <<stat_rows, stats, agg_raised, raw_rows, stat_fail>>
recentVars == <<hist_store, recent, recent_call, recent_raised>>
setupVars == <<entry_data, entry_options, entry_state, domain_data, platform, setups>>
flowVars == <<entries, flow_result, registry, submitted, saved_options>>
vars == <<cycleVars, schemaVars, aggVars, recentVars, setupVars, flowVars>>

----------------------------------------------------------------------------
(* Bounds of the model *)
MaxCycles == 2
MaxHist == 1

----------------------------------------------------------------------------
(* Python values *)

None == [None |-> TRUE]
Nothing == {}
Some(v) == {v}
The(m) == CHOOSE v \in m : TRUE
\* dict.get(key, default) on a possibly missing value
Get(m, default) == IF m = Nothing THEN default ELSE The(m)
\* truth value of a dict or None
Truthy(d) == d # None /\ DOMAIN d # {}
T(s) == <<s>>
\* {**d, key: value}
Merge(d, key, value) ==
    [k \in DOMAIN d \cup {key} |-> IF k = key THEN value ELSE d[k]]

----------------------------------------------------------------------------
(* const.py *)

HISTORY_LATEST_ONLY == "latest_only"
HISTORY_1_HOUR == "1_hour"
DEFAULT_HISTORY_PERIOD == HISTORY_LATEST_ONLY
\* the keys of HISTORY_PERIOD_TIMEDELTA_MAP the model uses
HISTORY_PERIOD_TIMEDELTA_MAP == {HISTORY_1_HOUR}
\* DEFAULT_PROMPT as the sequence of its literal text and replacement fields
DEFAULT_PROMPT == <<"text", "{entity_data}", "text", "{action_schema}", "text">>

----------------------------------------------------------------------------
(* Inputs: configuration, host state and SDK behaviour, drawn from small sets *)

EntityLists == {<<>>, <<"sensor.e1">>, <<"sensor.e1", "sensor.e2">>}
TestPrompt == <<"text", "{entity_data}">>
BracePrompt == <<"text", "{", "{entity_data}">>
Prompts == {TestPrompt, BracePrompt}
HistoryPeriods == {HISTORY_LATEST_ONLY, HISTORY_1_HOUR, "bogus"}
Thresholds == {50}
StateValues == {"123"}

\* entry.data as the config flow creates it: the API key alone (config_flow.py:74,80)
config ==
    [api_key |-> Some("key"), entities |-> Nothing, prompt |-> Nothing,
     history_period |-> Nothing]

OptionsSet ==
    [entities : {Nothing} \cup {Some(l) : l \in EntityLists},
     prompt : {Nothing} \cup {Some(p) : p \in Prompts},
     history_period : {Nothing} \cup {Some(h) : h \in HistoryPeriods},
     auto_execute_actions : {Nothing, Some(TRUE)},
     action_confidence_threshold : {Nothing} \cup {Some(t) : t \in Thresholds}]

\* Proposed Actions a result may carry
ActionSet ==
    {[domain |-> Some("light"), service |-> Some("turn_on"), confidence |-> 90],
     [domain |-> Some("light"), service |-> Some("turn_off"), confidence |-> 40],
     [domain |-> Nothing, service |-> Some("turn_on"), confidence |-> 90]}
ToExecuteSet ==
    {<<a>> : a \in ActionSet}
    \cup {<<[domain |-> Some("light"), service |-> Some("turn_on"), confidence |-> 90],
            [domain |-> Some("light"), service |-> Some("turn_off"), confidence |-> 40]>>}

\* function_call.args of a generate_insights call
ArgsSet ==
    {[insights |-> T("i1"), alerts |-> T("a1"), actions |-> T("none")]}
    \cup {[insights |-> T("i2"), alerts |-> T("a2"), to_execute |-> x] : x \in ToExecuteSet}

\* what client.models.generate_content does in one call
Responses ==
    {[has_parts |-> FALSE, function_call |-> Nothing, text |-> Nothing],
     [has_parts |-> TRUE, function_call |-> Nothing, text |-> Some(T("direct text"))],
     [has_parts |-> TRUE, function_call |-> Nothing, text |-> Nothing],
     [has_parts |-> TRUE, function_call |-> Some([name |-> "other", args |-> Nothing]),
      text |-> Nothing],
     [has_parts |-> TRUE,
      function_call |-> Some([name |-> "generate_insights", args |-> Nothing]),
      text |-> Nothing]}
    \cup {[has_parts |-> TRUE,
           function_call |-> Some([name |-> "generate_insights", args |-> Some(a)]),
           text |-> Nothing] : a \in ArgsSet}
ApiBehaviours ==
    {[raises |-> Some("API key not valid"), response |-> Nothing]}
    \cup {[raises |-> Nothing, response |-> Some(r)] : r \in Responses}

\* return values and side effects the tests give the patched client
\* (tests/test_sensor.py:52-57, 162, 186)
StubOutcomes ==
    {[kind |-> "return",
      val |-> [insights |-> T("Initial test insights"), alerts |-> T("Initial test alerts"),
               summary |-> T("Initial test summary")]],
     [kind |-> "return", val |-> None],
     [kind |-> "raise", exc |-> "Simulated API connection problem"]}

----------------------------------------------------------------------------
(* gemini_client.py *)

\* index of the first replacement field str.format cannot fill, 0 if none
FirstBad(template) ==
    LET bad == {i \in 1..Len(template) : template[i] \notin {"text", "{entity_data}"}}
    IN IF bad = {} THEN 0 ELSE CHOOSE i \in bad : \A j \in bad : i <= j

\* str(e) of the exception str.format raises on a field
FormatError(field) ==
    CASE field = "{" -> "Single '{' encountered in format string"
      [] field = "{}" -> "Replacement index 0 out of range for positional args tuple"
      [] OTHER -> "'action_schema'"

\* prompt.format(entity_data=entity_data_json)
Format(template, entity_data) ==
    IF FirstBad(template) = 0
    THEN [ok |-> TRUE,
          text |-> [i \in 1..Len(template) |->
                      IF template[i] = "{entity_data}" THEN entity_data ELSE template[i]]]
    ELSE [ok |-> FALSE, exc |-> FormatError(template[FirstBad(template)])]

StrResponse == T("str(response)")

\* the body of the try block of get_insights, on the response of generate_content
ParseResponse(r) ==
    IF ~r.has_parts
    THEN [kind |-> "return",
          val |-> [insights |-> T("No content parts in response."), alerts |-> T(""),
                   actions |-> T(""), raw_text |-> StrResponse]]
    ELSE IF r.function_call = Nothing
    THEN IF r.text # Nothing
         THEN [kind |-> "return",
               val |-> [insights |-> The(r.text),
                        alerts |-> T("No function call; direct text response."),
                        actions |-> T(""), raw_text |-> The(r.text)]]
         ELSE [kind |-> "return",
               val |-> [insights |-> T("No function call in response and no fallback text."),
                        alerts |-> T(""), actions |-> T(""), raw_text |-> StrResponse]]
    ELSE IF The(r.function_call).name # "generate_insights"
    THEN [kind |-> "return",
          val |-> [insights |-> <<"Unexpected function call: ", The(r.function_call).name>>,
                   alerts |-> T(""), actions |-> T(""), raw_text |-> StrResponse]]
    ELSE IF The(r.function_call).args = Nothing
    THEN \* dict(None) raises TypeError inside the try: caught, None
         [kind |-> "return", val |-> None]
    ELSE [kind |-> "return",
          val |-> Merge(The(The(r.function_call).args), "raw_text", StrResponse)]

\* GeminiClient.get_insights: the outcome of one call, api being what the SDK does
get_insights(prompt, entity_data, api) ==
    LET full_prompt == Format(prompt, entity_data)
    IN IF ~full_prompt.ok
       THEN [kind |-> "raise", exc |-> full_prompt.exc]
       ELSE IF api.raises # Nothing
       THEN [kind |-> "return", val |-> None]
       ELSE ParseResponse(The(api.response))

----------------------------------------------------------------------------
(* sensor.py: the update method the coordinator runs *)

NoEntitiesResult ==
    [insights |-> T("No entities configured."), alerts |-> T(""), summary |-> T("")]
ErrorResult ==
    [insights |-> T("Error fetching insights"), alerts |-> T("Error"),
     summary |-> T("Error"), raw_text |-> T("Error fetching insights")]
\* a plausible slip: the except clause drops the exception text
ExceptionResultNoText(e) ==
    [insights |-> T("Exception"), alerts |-> T("Exception"),
     summary |-> T("Exception"), raw_text |-> T("Exception")]

\* the dict of the except clause, e being str(e)
ExceptionResult(e) ==
    [insights |-> <<"Exception: ", e>>, alerts |-> T("Exception"),
     summary |-> T("Exception"), raw_text |-> <<"Exception: ", e>>]

\* options.get(key, config.get(key, default))
EffectiveEntities == Get(options.entities, Get(config.entities, <<>>))
EffectivePrompt == Get(options.prompt, Get(config.prompt, DEFAULT_PROMPT))
EffectiveHistoryPeriod ==
    Get(options.history_period, Get(config.history_period, DEFAULT_HISTORY_PERIOD))

\* a plausible slip: the record is updated in place, key by key
PublishUpdate(result) ==
    /\ data' = IF data = None THEN result
               ELSE [k \in DOMAIN data \cup DOMAIN result |->
                        IF k \in DOMAIN result THEN result[k] ELSE data[k]]
    /\ last_update_success' = TRUE
    /\ sensors_added' = TRUE
    /\ pc' = "Idle"

\* the coordinator takes the value the update method returns
Publish(result) ==
    /\ data' = result
    /\ last_update_success' = TRUE
    /\ sensors_added' = TRUE
    /\ pc' = "Idle"

\* the update method raises: the coordinator keeps its data and records the failure
Propagate(e) ==
    /\ raised' = Some(e)
    /\ last_update_success' = FALSE
    /\ pc' = "Idle"
    /\ UNCHANGED <<data, sensors_added>>

NoGatewayCall == [calls |-> 0, requests |-> 0, outcome |-> "notcalled", exc |-> Nothing]

\* a plausible slip: testing for a missing list instead of an empty one
NoEntitiesOnlyNone(ids) == FALSE

\* "if not entity_ids"
NoEntities(ids) == ids = <<>>

\* a scheduled tick or a refresh request starts the update method
StartCycle ==
    /\ pc = "Idle"
    /\ cycle < MaxCycles
    /\ cycle' = cycle + 1
    /\ entity_ids' = EffectiveEntities
    /\ idx' = 1
    /\ entity_data_map' = <<>>
    /\ entity_data_json' = "{}"
    /\ gw' = NoGatewayCall
    /\ insights' = None
    /\ svc_calls' = <<>>
    /\ raised' = Nothing
    /\ IF NoEntities(EffectiveEntities)
       THEN Publish(NoEntitiesResult)
       ELSE /\ pc' = IF Len(EffectiveEntities) = 0 THEN "Assembling" ELSE "Fetching"
            /\ UNCHANGED <<data, last_update_success, sensors_added>>
    /\ UNCHANGED <<options, patched, schemaVars, aggVars, recentVars, setupVars, flowVars>>

\* a plausible slip: the loop is left after its first pass
LastEntityFirst(i, ids) == TRUE

\* a plausible slip: the loop expects one more entity than the list holds
LastEntityOffByOne(i, ids) == i = Len(ids) + 1

\* "for entity_id in entity_ids" has reached the last element of the list
LastEntity(i, ids) == i = Len(ids)

\* entity_data_map[entity_id] = entry, and the loop moves on
StoreEntry(entry) ==
    /\ entity_data_map' = Merge(entity_data_map, entity_ids[idx], entry)
    /\ idx' = idx + 1
    /\ pc' = IF LastEntity(idx, entity_ids) THEN "Assembling" ELSE "Fetching"
    /\ UNCHANGED <<data, last_update_success, sensors_added, raised>>

HistorySeqs == UNION {[1..n -> StateValues] : n \in 0..MaxHist}

\* one pass of the loop over entity_ids
FetchEntity ==
    /\ pc = "Fetching"
    /\ idx <= Len(entity_ids)
    /\ IF EffectiveHistoryPeriod = HISTORY_LATEST_ONLY
          \/ EffectiveHistoryPeriod \notin HISTORY_PERIOD_TIMEDELTA_MAP
       THEN \E st \in {Nothing} \cup {Some(v) : v \in StateValues} :
                StoreEntry([current_state |-> st, historical_states |-> Nothing])
       ELSE \/ \E e \in {"recorder error"} :
                   \* get_significant_states raises in the executor job
                   Propagate(e) /\ UNCHANGED <<entity_data_map, idx>>
            \/ \E hist \in HistorySeqs :
                   IF hist # <<>>
                   THEN StoreEntry([current_state |-> Nothing,
                                    historical_states |-> Some(hist)])
                   ELSE \E st \in {Nothing} \cup {Some(v) : v \in StateValues} :
                            StoreEntry([current_state |-> st,
                                        historical_states |-> Some(hist)])
    /\ UNCHANGED <<options, patched, cycle, entity_ids, entity_data_json, gw, insights,
                   svc_calls, schemaVars, aggVars, recentVars, setupVars, flowVars>>

\* the rows one entity adds to raw_data_for_preprocessing_list
RowsOf(e, entry) ==
    (IF entry.current_state # Nothing THEN <<<<e, The(entry.current_state)>>>> ELSE <<>>)
    \o (IF entry.historical_states # Nothing
        THEN [i \in 1..Len(The(entry.historical_states)) |->
                <<e, The(entry.historical_states)[i]>>]
        ELSE <<>>)

RECURSIVE RawRows(_, _)
RawRows(ids, map) ==
    IF ids = <<>> THEN <<>> ELSE RowsOf(Head(ids), map[Head(ids)]) \o RawRows(Tail(ids), map)

\* "{}" unless a row follows the header; the payload of the rows is opaque
DataJson(ids, map) == IF Len(RawRows(ids, map)) > 0 THEN "payload" ELSE "{}"

Assemble ==
    /\ pc = "Assembling"
    /\ entity_data_json' = DataJson(entity_ids, entity_data_map)
    /\ pc' = "Calling"
    /\ UNCHANGED <<options, patched, data, last_update_success, sensors_added, cycle,
                   entity_ids, idx, entity_data_map, gw, insights, svc_calls, raised,
                   schemaVars, aggVars, recentVars, setupVars, flowVars>>

\* the outcomes gemini_client.get_insights may have in this call
GatewayOutcomes ==
    IF patched
    THEN StubOutcomes
    ELSE {get_insights(EffectivePrompt, entity_data_json, api) : api \in ApiBehaviours}

\* a plausible slip: a Gateway call that gave None is made a second time
AttemptsRetry(out) == IF out.kind = "return" /\ out.val = None THEN 2 ELSE 1

\* how often the update method invokes get_insights: one await, no loop
Attempts(out) == 1

\* generate_content invocations of one get_insights call: one, after the
\* prompt has been formatted; none when formatting raises or the call is stubbed
GenerateContentCalls(prompt, entity_data) ==
    IF ~patched /\ Format(prompt, entity_data).ok THEN 1 ELSE 0

CallGateway ==
    /\ pc = "Calling"
    /\ \E out \in GatewayOutcomes :
         /\ gw' = [calls |-> gw.calls + Attempts(out),
                   requests |-> gw.requests + Attempts(out)
                                  * GenerateContentCalls(EffectivePrompt, entity_data_json),
                   outcome |-> out.kind,
                   exc |-> IF out.kind = "raise" THEN Some(out.exc) ELSE Nothing]
         /\ IF out.kind = "raise"
            THEN Publish(ExceptionResult(out.exc)) /\ UNCHANGED insights
            ELSE /\ insights' = out.val
                 /\ pc' = "Applying"
                 /\ UNCHANGED <<data, last_update_success, sensors_added>>
    /\ UNCHANGED <<options, patched, cycle, entity_ids, idx, entity_data_map,
                   entity_data_json, svc_calls, raised, schemaVars, aggVars, recentVars, setupVars, flowVars>>

NotifyCall(message) ==
    [domain |-> "notify", service |-> "mobile_app_pixel_6_pro",
     message |-> Some(message), raised |-> FALSE]

\* options.get(CONF_ACTION_CONFIDENCE_THRESHOLD, 0.7), as the options form defaults it
Threshold(opts) == Get(opts.action_confidence_threshold, 70)
\* options.get(CONF_AUTO_EXECUTE_ACTIONS, False), as the options form defaults it
AutoExecute(opts) == Get(opts.auto_execute_actions, FALSE)

\* the Proposed Actions of a Gateway value
ProposedActions(ins) ==
    IF Truthy(ins) /\ "to_execute" \in DOMAIN ins THEN ins["to_execute"] ELSE <<>>
WellFormed(a) == a.domain # Nothing /\ a.service # Nothing
\* the service invocation that would execute a Proposed Action
ActionCall(a) ==
    [domain |-> Get(a.domain, "None"), service |-> Get(a.service, "None"),
     message |-> Nothing, raised |-> FALSE]

RECURSIVE ActionCalls(_, _)
ActionCalls(acts, minConfidence) ==
    IF acts = <<>> THEN <<>>
    ELSE (IF WellFormed(Head(acts)) /\ Head(acts).confidence >= minConfidence
          THEN <<ActionCall(Head(acts))>> ELSE <<>>)
         \o ActionCalls(Tail(acts), minConfidence)

\* a plausible slip: an executor that forgets the confidence gate
ServiceCallsNoGate(ins, opts) ==
    <<NotifyCall(ins["raw_text"])>>
    \o (IF AutoExecute(opts) THEN ActionCalls(ProposedActions(ins), 0) ELSE <<>>)

\* a plausible slip: an executor that forgets the automatic-execution switch
ServiceCallsNoSwitch(ins, opts) ==
    <<NotifyCall(ins["raw_text"])>>
    \o ActionCalls(ProposedActions(ins), Threshold(opts))

\* the hass.services.async_call invocations made on a result that has raw_text
ServiceCalls(ins, opts) == <<NotifyCall(ins["raw_text"])>>

\* a plausible slip: nothing new is returned when the Gateway gives None
FallbackResultStale(ins) ==
    IF Truthy(ins) THEN Merge(ins, "raw_text", T("Raw text not available.")) ELSE data

\* what the update method returns for a Gateway value without raw_text or None
FallbackResult(ins) ==
    IF Truthy(ins) THEN Merge(ins, "raw_text", T("Raw text not available.")) ELSE ErrorResult

\* the first call raises: nothing after it in the try block is executed
Raising(calls) == <<[Head(calls) EXCEPT !.raised = TRUE]>>

Apply ==
    /\ pc = "Applying"
    /\ IF Truthy(insights) /\ "raw_text" \in DOMAIN insights
       THEN \/ /\ svc_calls' = svc_calls \o ServiceCalls(insights, options)
               /\ Publish(insights)
            \/ \* the notify service is not registered: async_call raises
               /\ svc_calls' = svc_calls \o Raising(ServiceCalls(insights, options))
               /\ Publish(ExceptionResult("ServiceNotFound"))
       ELSE /\ Publish(FallbackResult(insights))
            /\ UNCHANGED svc_calls
    /\ UNCHANGED <<options, patched, cycle, entity_ids, idx, entity_data_map,
                   entity_data_json, gw, insights, raised, schemaVars, aggVars, recentVars, setupVars, flowVars>>

\* GeminiInsightsSensor.available and GeminiRawTextSensor.available
available == last_update_success

\* the sensors async_setup_entry creates, by insight_type.lower()
InsightTypes == {"insights", "alerts", "summary"}
\* a plausible slip: data.get(insight_type) without a default gives None, which
\* the host shows as 'unknown'
native_value_no_default(insight_type, d) ==
    IF d = None THEN T("Initializing...")
    ELSE IF insight_type \in DOMAIN d THEN d[insight_type] ELSE T("unknown")

\* GeminiInsightsSensor.native_value, d being coordinator.data
native_value(insight_type, d) ==
    IF d = None THEN T("Initializing...")
    ELSE IF insight_type \in DOMAIN d THEN d[insight_type] ELSE T("Not available")
\* GeminiRawTextSensor.native_value
raw_text_native_value(d) ==
    IF d = None THEN T("Initializing...")
    ELSE IF "raw_text" \in DOMAIN d THEN d["raw_text"] ELSE T("Raw text not available")
\* GeminiRawTextSensor.extra_state_attributes
raw_text_extra_state_attributes(success) ==
    [last_update_status |-> IF success THEN T("Success") ELSE T("Failed")]
\* GeminiInsightsSensor.extra_state_attributes
extra_state_attributes(d, success) ==
    [raw_data |-> IF success /\ Truthy(d) THEN Some(d) ELSE Nothing,
     last_update_status |-> IF success THEN "Success" ELSE "Failed"]

\* no call of _fetch_recent_events has been made
RecentIdle ==
    /\ hist_store = <<>>
    /\ recent = <<>>
    /\ recent_call = Nothing
    /\ recent_raised = Nothing

\* sensor.async_setup_entry has not run
NoPlatform ==
    [outcome |-> "none", exc |-> Nothing, client |-> FALSE, coordinator |-> FALSE,
     refreshes |-> 0, sensors |-> FALSE, update_interval |-> Nothing]
\* no config entry is being set up
SetupIdle ==
    /\ entry_data = [api_key |-> Nothing, update_interval |-> Nothing]
    /\ entry_options = [update_interval |-> Nothing]
    /\ entry_state = "not_loaded"
    /\ domain_data = Nothing
    /\ platform = NoPlatform
    /\ setups = 0
\* no flow has been opened
FlowIdle ==
    /\ entries = <<>>
    /\ flow_result = Nothing
    /\ registry = <<>>
    /\ submitted = Nothing
    /\ saved_options = Nothing

CycleInit ==
    /\ options \in OptionsSet
    /\ patched \in BOOLEAN
    /\ data = None
    /\ last_update_success = TRUE
    /\ sensors_added = FALSE
    /\ pc = "Idle"
    /\ cycle = 0
    /\ entity_ids = <<>>
    /\ idx = 1
    /\ entity_data_map = <<>>
    /\ entity_data_json = "{}"
    /\ gw = NoGatewayCall
    /\ insights = None
    /\ svc_calls = <<>>
    /\ raised = Nothing

Init ==
    /\ CycleInit
    /\ catalog = <<>>
    /\ schema_out = <<>>
    /\ stat_rows = <<>>
    /\ stats = <<>>
    /\ agg_raised = Nothing
    /\ raw_rows = <<>>
    /\ stat_fail = Nothing
    /\ RecentIdle
    /\ SetupIdle
    /\ FlowIdle

Next ==
    \/ StartCycle
    \/ FetchEntity
    \/ Assemble
    \/ CallGateway
    \/ Apply

Spec == Init /\ [][Next]_vars

----------------------------------------------------------------------------
(* Claims about the update cycle, checked under Spec *)

CycleDone == pc = "Idle" /\ cycle > 0
\* the Gateway returned a dict in the cycle
GatewayReturnedResult == gw.outcome = "return" /\ Truthy(insights)
IsActionCall(c) == c.message = Nothing

\* C1: in a cycle whose entity list is empty, get_insights is invoked zero times
\* and the published state is the fixed 'No entities configured.' placeholder,
\* whatever an earlier cycle published.
C1_NoEntitiesNoGateway ==
    (cycle > 0 /\ entity_ids = <<>>) =>
        /\ pc = "Idle"
        /\ gw.calls = 0
        /\ gw.outcome = "notcalled"
        /\ data = NoEntitiesResult
C1_Witness ==
    /\ cycle = MaxCycles
    /\ entity_ids = <<>>
    /\ pc = "Idle"
    /\ data = NoEntitiesResult
    /\ gw.calls = 0

C3_AboveThresholdExecutedOnce ==
    (CycleDone /\ AutoExecute(options) /\ GatewayReturnedResult) =>
        \A i \in 1..Len(ProposedActions(insights)) :
            LET a == ProposedActions(insights)[i]
            IN (WellFormed(a) /\ a.confidence >= Threshold(options)) =>
                  Cardinality({j \in 1..Len(svc_calls) : svc_calls[j] = ActionCall(a)}) = 1

\* C4: with automatic execution disabled, no Proposed Action is invoked as a
\* host service call: every service call of the cycle is the notification.
C4_DisabledNeverExecutes ==
    ~AutoExecute(options) =>
        \A j \in 1..Len(svc_calls) :
            /\ ~IsActionCall(svc_calls[j])
            /\ \A i \in 1..Len(ProposedActions(insights)) :
                  svc_calls[j] # ActionCall(ProposedActions(insights)[i])
C4_Witness ==
    /\ pc = "Idle"
    /\ ~AutoExecute(options)
    /\ Len(svc_calls) = 1
    /\ \E i \in 1..Len(ProposedActions(insights)) :
          /\ WellFormed(ProposedActions(insights)[i])
          /\ ProposedActions(insights)[i].confidence >= Threshold(options)

\* C5 as claimed: when the Gateway call raises, the published insights carry
\* the exception's text and available reflects the failure.
C5_Original ==
    (CycleDone /\ gw.outcome = "raise") =>
        /\ data["insights"] = <<"Exception: ", The(gw.exc)>>
        /\ ~available
\* C5 as amended: when the Gateway call raises, the published insights carry
\* the exception's text, nothing is raised to the coordinator and available
\* stays true.
C5_RaiseIsPublishedAndAvailable ==
    (CycleDone /\ gw.outcome = "raise") =>
        /\ data["insights"] = <<"Exception: ", The(gw.exc)>>
        /\ raised = Nothing
        /\ available
C5_Witness ==
    /\ CycleDone
    /\ gw.outcome = "raise"
    /\ ~patched
    /\ EffectivePrompt = DEFAULT_PROMPT
    /\ gw.exc = Some("'action_schema'")
    /\ data["insights"] = <<"Exception: ", "'action_schema'">>
    /\ available

\* C6: when the Gateway returns None, the published state is the fixed error
\* placeholder with an error value in insights, alerts, summary and raw_text,
\* and nothing is raised to the coordinator.
C6_NoneIsErrorPlaceholder ==
    (CycleDone /\ gw.outcome = "return" /\ insights = None) =>
        /\ DOMAIN data = {"insights", "alerts", "summary", "raw_text"}
        /\ data["insights"] = T("Error fetching insights")
        /\ data["alerts"] = T("Error")
        /\ data["summary"] = T("Error")
        /\ data["raw_text"] = T("Error fetching insights")
        /\ raised = Nothing
        /\ last_update_success
C6_Witness ==
    /\ cycle = MaxCycles
    /\ pc = "Idle"
    /\ ~patched
    /\ gw.outcome = "return"
    /\ insights = None
    /\ data = ErrorResult

\* C7: the update method never propagates an exception to the coordinator,
\* whichever step of the cycle raises.
C7_NeverPropagates == raised = Nothing /\ (CycleDone => last_update_success)

\* C8: GeminiClient.get_insights never raises out of the call, for every
\* prompt template and every payload.
C8_GetInsightsNeverRaises == ~patched => gw.outcome # "raise"

----------------------------------------------------------------------------
(* preprocessor.py: Preprocessor.async_get_action_schema *)

MaxServices == 2

CatalogDomains == {"light", "homeassistant", "persistent_notification"}
CatalogServices == {"turn_on", "reload", "remove", "update", "restart", "stop"}
\* the description dicts of the host: "description" and "fields" may be missing
Descriptions ==
    {[description |-> Some("d"), fields |-> Some([entity_id |-> Some("target")])],
     [description |-> Nothing, fields |-> Some([entity_id |-> Nothing])],
     [description |-> Some("d"), fields |-> Nothing]}

\* the (domain, service) pairs of a catalog, a sequence of
\* [domain, services] in the iteration order of the host's dict
RECURSIVE CountServices(_)
CountServices(cat) ==
    IF cat = <<>> THEN 0 ELSE Len(Head(cat).services) + CountServices(Tail(cat))
DomainIndex(cat, dom) ==
    LET at == {i \in 1..Len(cat) : cat[i].domain = dom}
    IN IF at = {} THEN 0 ELSE CHOOSE i \in at : TRUE
HasService(cat, dom, srv) ==
    /\ DomainIndex(cat, dom) # 0
    /\ \E k \in 1..Len(cat[DomainIndex(cat, dom)].services) :
          cat[DomainIndex(cat, dom)].services[k].service = srv

\* "if srv in {...}: continue"
Dangerous == {"reload", "remove", "update"}

\* v.get("description", "") for every field of desc.get("fields", {})
FieldDescriptions(desc) ==
    LET fields == Get(desc.fields, <<>>)
    IN [k \in DOMAIN fields |-> Get(fields[k], "")]

\* the dict appended for one service
Descriptor(dom, s) ==
    [domain |-> dom, service |-> s.service,
     description |-> Get(s.desc.description, ""),
     fields |-> FieldDescriptions(s.desc)]

RECURSIVE DomainActions(_, _)
DomainActions(dom, srvs) ==
    IF srvs = <<>> THEN <<>>
    ELSE (IF Head(srvs).service \in Dangerous THEN <<>> ELSE <<Descriptor(dom, Head(srvs))>>)
         \o DomainActions(dom, Tail(srvs))

\* _build: the list that json.dumps serialises
RECURSIVE BuildActions(_)
BuildActions(cat) ==
    IF cat = <<>> THEN <<>>
    ELSE DomainActions(Head(cat).domain, Head(cat).services) \o BuildActions(Tail(cat))

\* the host registers a service
RegisterService ==
    /\ CountServices(catalog) < MaxServices
    /\ \E dom \in CatalogDomains, srv \in CatalogServices, d \in Descriptions :
          /\ ~HasService(catalog, dom, srv)
          /\ LET s == [service |-> srv, desc |-> d]
                 i == DomainIndex(catalog, dom)
             IN catalog' =
                  IF i = 0
                  THEN Append(catalog, [domain |-> dom, services |-> <<s>>])
                  ELSE [catalog EXCEPT ![i].services = Append(@, s)]
    /\ UNCHANGED <<schema_out, cycleVars, aggVars, recentVars, setupVars, flowVars>>

\* a plausible slip: the actions list outlives the call and keeps growing
GetActionSchemaAccumulating ==
    /\ schema_out' = schema_out \o BuildActions(catalog)
    /\ UNCHANGED <<catalog, cycleVars, aggVars, recentVars, setupVars, flowVars>>

GetActionSchema ==
    /\ schema_out' = BuildActions(catalog)
    /\ UNCHANGED <<catalog, cycleVars, aggVars, recentVars, setupVars, flowVars>>

IdleCycle ==
    /\ options = [entities |-> Nothing, prompt |-> Nothing, history_period |-> Nothing,
                  auto_execute_actions |-> Nothing,
                  action_confidence_threshold |-> Nothing]
    /\ patched = FALSE
    /\ data = None
    /\ last_update_success = TRUE
    /\ sensors_added = FALSE
    /\ pc = "Idle"
    /\ cycle = 0
    /\ entity_ids = <<>>
    /\ idx = 1
    /\ entity_data_map = <<>>
    /\ entity_data_json = "{}"
    /\ gw = NoGatewayCall
    /\ insights = None
    /\ svc_calls = <<>>
    /\ raised = Nothing

SchemaInit ==
    /\ IdleCycle
    /\ catalog = <<>>
    /\ schema_out = <<>>
    /\ stat_rows = <<>>
    /\ stats = <<>>
    /\ agg_raised = Nothing
    /\ raw_rows = <<>>
    /\ stat_fail = Nothing
    /\ RecentIdle
    /\ SetupIdle
    /\ FlowIdle

SchemaNext == RegisterService \/ GetActionSchema

SpecSchema == SchemaInit /\ [][SchemaNext]_vars

DenyList == {"reload", "remove", "update", "restart", "stop"}
NotificationAdminDomain == "persistent_notification"

\* C9: no Action Descriptor of the builder's output has a deny-listed operation
\* name (reload, remove, update, restart, stop) and none belongs to the
\* notification-administration domain.
C9_NoDenyListedDescriptor ==
    \A i \in 1..Len(schema_out) :
        /\ schema_out[i].service \notin DenyList
        /\ schema_out[i].domain # NotificationAdminDomain

----------------------------------------------------------------------------
(* preprocessor.py: Preprocessor._compute_long_term_stats *)

MaxRows == 2

SLOT_SECONDS == 30 * 60
SLOTS_PER_DAY == (24 * 3600) \div SLOT_SECONDS

\* Preprocessor.entity_ids
AggEntities == <<"sensor.e1", "sensor.e2">>
\* r["start"] as seconds after start_time: before the window, on its first
\* and last buckets and their edges, after the window
ElapsedSet == {0 - 300, 0, 1500, 1800, 86100, 86400}
\* r.get("mean"), in hundredths
MeanSet == {Nothing, Some(1000), Some(1001)}
RowSet == [start : ElapsedSet, mean : MeanSet]

RECURSIVE Sum(_)
Sum(xs) == IF xs = <<>> THEN 0 ELSE Head(xs) + Sum(Tail(xs))

\* round(n / d, 0) to the nearest integer, ties to even
RoundHalfEven(n, d) ==
    LET q == n \div d
        r == n % d
    IN IF 2 * r < d THEN q
       ELSE IF 2 * r > d THEN q + 1
       ELSE IF q % 2 = 0 THEN q ELSE q + 1

\* round(mean(bucket), 2), in hundredths
RoundedMean(bucket) == RoundHalfEven(Sum(bucket), Len(bucket))

\* a plausible slip: the slot index rounded to the nearest bucket, not floored
SlotOfNearest(r) == (r.start + (SLOT_SECONDS \div 2)) \div SLOT_SECONDS

\* int((ts - start_time).total_seconds() // SLOT_SECONDS)
SlotOf(r) == r.start \div SLOT_SECONDS

\* buckets[i] after the loop over the rows
RECURSIVE Bucket(_, _)
Bucket(rows, i) ==
    IF rows = <<>> THEN <<>>
    ELSE (IF SlotOf(Head(rows)) = i /\ 0 <= SlotOf(Head(rows))
             /\ SlotOf(Head(rows)) < SLOTS_PER_DAY /\ Head(rows).mean # Nothing
          THEN <<The(Head(rows).mean)>> ELSE <<>>)
         \o Bucket(Tail(rows), i)

\* a plausible slip: a range that runs one index too far
SlotRangeInclusive == 0..SLOTS_PER_DAY

\* range(SLOTS_PER_DAY)
SlotRange == 0..(SLOTS_PER_DAY - 1)

\* the list of the "if not rows" branch: slot_start is seconds after start_time
NullSlots ==
    [k \in 1..Cardinality(SlotRange) |->
        [slot_start |-> (k - 1) * SLOT_SECONDS, avg |-> Nothing]]

\* the list built for one entity from its rows
EntitySlots(rows) ==
    IF rows = <<>>
    THEN NullSlots
    ELSE [k \in 1..Cardinality(SlotRange) |->
            [slot_start |-> (k - 1) * SLOT_SECONDS,
             avg |-> IF Bucket(rows, k - 1) # <<>>
                     THEN Some(RoundedMean(Bucket(rows, k - 1)))
                     ELSE Nothing]]

RECURSIVE CountRows(_, _)
CountRows(rows, ids) ==
    IF ids = <<>> THEN 0 ELSE Len(rows[Head(ids)]) + CountRows(rows, Tail(ids))

\* the recorder stores one more 5-minute row for an entity
RecordStatistics ==
    /\ CountRows(stat_rows, AggEntities) < MaxRows
    /\ \E i \in 1..Len(AggEntities), r \in RowSet :
          stat_rows' = [stat_rows EXCEPT ![AggEntities[i]] = Append(@, r)]
    /\ UNCHANGED <<stats, agg_raised, raw_rows, stat_fail, cycleVars, schemaVars, recentVars, setupVars, flowVars>>

\* _inner, statistics_during_period answering for every entity
ComputeLongTermStats ==
    /\ raw_rows' = stat_rows
    /\ stats' = [e \in {AggEntities[i] : i \in 1..Len(AggEntities)} |->
                    EntitySlots(stat_rows[e])]
    /\ agg_raised' = Nothing
    /\ stat_fail' = Nothing
    /\ UNCHANGED <<stat_rows, cycleVars, schemaVars, recentVars, setupVars, flowVars>>

\* _inner, statistics_during_period raising for an entity: no try surrounds the
\* call, so the exception leaves _compute_long_term_stats and nothing is returned
ComputeLongTermStatsRaises ==
    /\ \E i \in 1..Len(AggEntities) : stat_fail' = Some(AggEntities[i])
    /\ agg_raised' = Some("recorder error")
    /\ UNCHANGED <<stat_rows, stats, raw_rows, cycleVars, schemaVars, recentVars, setupVars, flowVars>>

AggInit ==
    /\ IdleCycle
    /\ catalog = <<>>
    /\ schema_out = <<>>
    /\ stat_rows = [e \in {AggEntities[i] : i \in 1..Len(AggEntities)} |-> <<>>]
    /\ stats = <<>>
    /\ agg_raised = Nothing
    /\ raw_rows = stat_rows
    /\ stat_fail = Nothing
    /\ RecentIdle
    /\ SetupIdle
    /\ FlowIdle

AggNext == RecordStatistics \/ ComputeLongTermStats \/ ComputeLongTermStatsRaises

SpecAgg == AggInit /\ [][AggNext]_vars

\* C10: for every entity the aggregator reports it returns exactly 48 slots,
\* in slot-index order 0..47, whatever rows the statistics store returned.
C10_FortyEightSlots ==
    \A e \in DOMAIN stats :
        /\ Len(stats[e]) = 48
        /\ \A k \in 1..Len(stats[e]) : stats[e][k].slot_start = (k - 1) * 1800
C10_Witness ==
    /\ DOMAIN stats = {"sensor.e1", "sensor.e2"}
    /\ stat_rows["sensor.e2"] = <<>>
    /\ Len(stats["sensor.e2"]) = 48
    /\ \E i, j \in 1..Len(stat_rows["sensor.e1"]) :
          /\ stat_rows["sensor.e1"][i].start = 86400
          /\ stat_rows["sensor.e1"][j].start = 86100
          /\ stat_rows["sensor.e1"][j].mean # Nothing
    /\ Len(stats["sensor.e1"]) = 48
    /\ stats["sensor.e1"][48].avg # Nothing

\* the rows of an entity that carry a value and whose start lies in slot i
SamplesInSlot(rows, i) ==
    {j \in 1..Len(rows) : /\ rows[j].mean # Nothing
                          /\ i * 1800 <= rows[j].start
                          /\ rows[j].start < (i + 1) * 1800}
RECURSIVE SumOver(_, _)
SumOver(rows, S) ==
    IF S = {} THEN 0
    ELSE LET j == CHOOSE x \in S : TRUE
         IN The(rows[j].mean) + SumOver(rows, S \ {j})
Abs(x) == IF x < 0 THEN 0 - x ELSE x
\* the last call returned, and stats is what it returned for raw_rows
StatsReturned == stat_fail = Nothing /\ DOMAIN stats # {}

\* C11 as claimed: every slot's average is the mean of exactly the sample values
\* whose elapsed seconds, integer-divided by 1800, equal the slot index, and is
\* null exactly when there is no such sample.
C11_Original ==
    StatsReturned =>
        \A e \in DOMAIN stats : \A i \in 0..47 :
            LET S == SamplesInSlot(raw_rows[e], i)
                avg == stats[e][i + 1].avg
            IN /\ (avg = Nothing) <=> (S = {})
               /\ S # {} => The(avg) * Cardinality(S) = SumOver(raw_rows[e], S)
\* C11 as amended: every slot's average is that mean rounded to two decimals
\* (within half a hundredth of it), and is null exactly when no sample with a
\* value falls in the slot; samples outside the window reach no slot.
C11_SlotIsRoundedMean ==
    StatsReturned =>
        \A e \in DOMAIN stats : \A i \in 0..47 :
            LET S == SamplesInSlot(raw_rows[e], i)
                avg == stats[e][i + 1].avg
            IN /\ (avg = Nothing) <=> (S = {})
               /\ S # {} =>
                    2 * Abs(The(avg) * Cardinality(S) - SumOver(raw_rows[e], S))
                        <= Cardinality(S)
C11_Witness ==
    /\ StatsReturned
    /\ Cardinality(SamplesInSlot(raw_rows["sensor.e1"], 0)) = 2
    /\ SumOver(raw_rows["sensor.e1"], SamplesInSlot(raw_rows["sensor.e1"], 0)) = 2001
    /\ stats["sensor.e1"][1].avg = Some(1000)
    /\ stats["sensor.e1"][2].avg = Nothing

\* C12: when history retrieval raises for one entity, that entity's 48 slots
\* are all null, every other configured entity still has its slots, and nothing
\* is raised out of the aggregator.
C12_FailureIsNullSlots ==
    stat_fail # Nothing =>
        /\ agg_raised = Nothing
        /\ DOMAIN stats = {AggEntities[i] : i \in 1..Len(AggEntities)}
        /\ \A k \in 1..48 : stats[The(stat_fail)][k].avg = Nothing

\* hass.states.get(entity_id).state of the aggregated entities
CurrentState == [e \in {"sensor.e1", "sensor.e2"} |->
                    IF e = "sensor.e1" THEN "21.5" ELSE "on"]
\* float(state) succeeds
IsNumeric(state) == state \in {"21.5", "123"}

\* C13: an entity whose current value does not convert to a float contributes
\* no slots to the aggregated output.
C13_NonNumericSkipped ==
    \A e \in DOMAIN stats : IsNumeric(CurrentState[e])

\* ---------------------------------------------------------------------------
\* Preprocessor._fetch_recent_events: the raw events of the last 6 hours
\* ---------------------------------------------------------------------------
MaxEvents == 3
RecentEntities == {AggEntities[i] : i \in 1..Len(AggEntities)}
RecentStates == {"on", "off"}

RECURSIVE CountEvents(_, _)
CountEvents(store, es) ==
    IF es = {} THEN 0
    ELSE LET e == CHOOSE x \in es : TRUE
         IN Len(store[e]) + CountEvents(store, es \ {e})

\* s.last_updated.isoformat()
Isoformat(t) == <<"iso", t>>
\* {"state": s.state, "last_updated": s.last_updated.isoformat()} for s in states
Compact(states) ==
    [k \in 1..Len(states) |->
        [state |-> states[k].state, last_updated |-> Isoformat(states[k].last_updated)]]

\* a plausible slip: an entity whose retrieval failed gets no key at all
RecentEventsSkipFailed(hist, failed) ==
    [e \in RecentEntities \ failed |-> Compact(hist[e])]

\* the loop of _inner: every entity gets a key; [] when its retrieval raised
RecentEvents(hist, failed) ==
    [e \in RecentEntities |-> IF e \in failed THEN <<>> ELSE Compact(hist[e])]

\* the recorder stores one more state change of an entity
RecordState ==
    /\ CountEvents(hist_store, RecentEntities) < MaxEvents
    /\ \E e \in RecentEntities, s \in RecentStates :
          hist_store' = [hist_store EXCEPT ![e] =
              Append(@, [state |-> s,
                         last_updated |-> 60 * CountEvents(hist_store, RecentEntities)])]
    /\ UNCHANGED <<recent, recent_call, recent_raised, cycleVars, schemaVars, aggVars, setupVars, flowVars>>

\* _fetch_recent_events, get_significant_states raising for the entities in failed
FetchRecentEvents ==
    /\ \E failed \in SUBSET RecentEntities :
          /\ recent_call' = Some([hist |-> hist_store, failed |-> failed])
          /\ recent' = RecentEvents(hist_store, failed)
    /\ recent_raised' = Nothing
    /\ UNCHANGED <<hist_store, cycleVars, schemaVars, aggVars, setupVars, flowVars>>

RecentInit ==
    /\ IdleCycle
    /\ catalog = <<>>
    /\ schema_out = <<>>
    /\ stat_rows = <<>>
    /\ stats = <<>>
    /\ agg_raised = Nothing
    /\ raw_rows = <<>>
    /\ stat_fail = Nothing
    /\ hist_store = [e \in RecentEntities |-> <<>>]
    /\ recent = <<>>
    /\ recent_call = Nothing
    /\ recent_raised = Nothing
    /\ SetupIdle
    /\ FlowIdle

RecentNext == RecordState \/ FetchRecentEvents

SpecRecent == RecentInit /\ [][RecentNext]_vars

\* C14: when recent-event retrieval raises for an entity, the compactor returns
\* an empty sequence for it, still returns the events of every other configured
\* entity, and raises nothing to its caller.
C14_FailureIsEmptySequence ==
    recent_call # Nothing =>
        LET call == The(recent_call) IN
        /\ recent_raised = Nothing
        /\ DOMAIN recent = RecentEntities
        /\ \A e \in call.failed : recent[e] = <<>>
        /\ \A e \in RecentEntities \ call.failed :
              /\ Len(recent[e]) = Len(call.hist[e])
              /\ \A k \in 1..Len(recent[e]) :
                    recent[e][k].state = call.hist[e][k].state
C14_Witness ==
    /\ recent_call # Nothing
    /\ The(recent_call).failed = {"sensor.e1"}
    /\ Len(The(recent_call).hist["sensor.e1"]) > 0
    /\ recent["sensor.e1"] = <<>>
    /\ Len(recent["sensor.e2"]) = 2

\* ---------------------------------------------------------------------------
\* The cycle under the event loop's scheduling: a coroutine waiting on an
\* executor job or a service call is resumed once that call returns or raises
\* ---------------------------------------------------------------------------
SpecFair ==
    /\ Spec
    /\ WF_vars(FetchEntity)
    /\ WF_vars(Assemble)
    /\ WF_vars(CallGateway)
    /\ WF_vars(Apply)

\* C16: every update cycle that has started eventually ends in Idle, whether the
\* fetch, the Gateway call or the side effects succeed or fail.
C16_CycleEndsIdle == (pc # "Idle") ~> (pc = "Idle")
C16_Witness ==
    /\ pc = "Idle"
    /\ cycle > 0
    /\ Len(entity_ids) = 2
    /\ idx = 3
    /\ gw.outcome = "raise"

\* C17: a cycle issues at most one Gateway request: get_insights is invoked at
\* most once and sends at most one generate_content request, none before the
\* Calling phase, and a call that failed is not repeated in the same cycle.
C17_AtMostOneGatewayRequest ==
    /\ gw.calls <= 1
    /\ gw.requests <= gw.calls
    /\ pc \in {"Fetching", "Assembling", "Calling"} => gw.calls = 0
    /\ pc = "Applying" => gw.calls = 1
C17_Witness ==
    /\ pc = "Idle"
    /\ ~patched
    /\ gw.calls = 1
    /\ gw.requests = 1
    /\ insights = None
    /\ data = ErrorResult

\* the phase changes the state machine Idle -> Fetching -> Assembling ->
\* Calling -> Applying -> Idle allows, a failing phase going straight to Idle
PhaseOrder ==
    {<<"Idle", "Fetching">>, <<"Fetching", "Assembling">>, <<"Assembling", "Calling">>,
     <<"Calling", "Applying">>, <<"Applying", "Idle">>,
     <<"Fetching", "Idle">>, <<"Calling", "Idle">>}
AllFetched(ids, map) == \A i \in 1..Len(ids) : ids[i] \in DOMAIN map

\* C18: the phases of a cycle occur in the order Fetching, Assembling, Calling,
\* Applying: the payload is assembled and the Gateway called only once data for
\* every configured entity has been fetched, and the notification, and the
\* publication of a cycle that fetched entities, come only after the Gateway
\* call has been made.
C18_PhasesInOrder ==
    [][/\ pc' # pc => <<pc, pc'>> \in PhaseOrder
       /\ pc' = "Assembling" => AllFetched(entity_ids', entity_data_map')
       /\ gw'.calls > gw.calls =>
             /\ pc = "Calling"
             /\ AllFetched(entity_ids, entity_data_map)
             /\ entity_data_json = DataJson(entity_ids, entity_data_map)
       /\ Len(svc_calls') > Len(svc_calls) =>
             pc = "Applying" /\ gw.calls = 1 /\ gw.outcome = "return"
       /\ (pc # "Idle" /\ data' # data) => gw'.calls = 1
       /\ (pc # "Idle" /\ pc' = "Idle" /\ raised' = Nothing) => gw'.calls = 1
      ]_vars
C18_Witness ==
    /\ pc = "Idle"
    /\ cycle > 0
    /\ Len(entity_ids) = 2
    /\ AllFetched(entity_ids, entity_data_map)
    /\ gw.outcome = "return"
    /\ Len(svc_calls) = 1
    /\ data = insights

\* what the update method can return in the cycle whose values the state holds
CycleResults ==
    IF NoEntities(entity_ids) THEN {NoEntitiesResult}
    ELSE IF gw.outcome = "raise" THEN {ExceptionResult(The(gw.exc))}
    ELSE IF Truthy(insights) /\ "raw_text" \in DOMAIN insights
    THEN {insights, ExceptionResult("ServiceNotFound")}
    ELSE IF Truthy(insights)
    THEN {Merge(insights, "raw_text", T("Raw text not available."))}
    ELSE {ErrorResult}

\* C19: the last-result record changes only in the step that completes a cycle,
\* and then becomes, as a whole, one result of that cycle: every sensor reads a
\* field of that one result, never a field left over from an earlier cycle.
C19_WholeRecordReplaced ==
    [][/\ pc' # "Idle" => data' = data
       /\ data' # data =>
             \E R \in CycleResults' :
                /\ data' = R
                /\ \A t \in InsightTypes : native_value(t, data') = native_value(t, R)
                /\ raw_text_native_value(data') = raw_text_native_value(R)
      ]_vars
C19_Witness ==
    /\ pc = "Idle"
    /\ cycle = 2
    /\ ~patched
    /\ gw.outcome = "return"
    /\ Truthy(insights)
    /\ native_value("insights", data) = insights["insights"]
    /\ native_value("summary", data) = T("Not available")
    /\ raw_text_native_value(data) = insights["raw_text"]

\* C20: after a cycle in which the Gateway returned a result, the published
\* record equals that result exactly as the Gateway returned it, each sensor's
\* value is the corresponding field, and the Insights sensor's raw_data
\* attribute equals the Gateway's result.
C20_PublishedEqualsGatewayResult ==
    (CycleDone /\ GatewayReturnedResult) =>
        /\ data = insights
        /\ \A t \in InsightTypes \cap DOMAIN insights :
              native_value(t, data) = insights[t]
        /\ extra_state_attributes(data, last_update_success).raw_data = Some(insights)

\* a defined string, as the model writes strings
IsText(v) == v \in Seq(STRING)

\* C21: in every reachable state each presentation sensor shows a defined
\* string: 'Initializing...' while nothing has been published, and otherwise the
\* corresponding field of the last published result, or a fixed fallback string
\* when the result has no such field.
C21_SensorsShowDefinedString ==
    /\ \A t \in InsightTypes :
          /\ IsText(native_value(t, data))
          /\ data = None => native_value(t, data) = T("Initializing...")
          /\ (data # None /\ t \in DOMAIN data) => native_value(t, data) = data[t]
          /\ (data # None /\ t \notin DOMAIN data) =>
                native_value(t, data) = T("Not available")
    /\ IsText(raw_text_native_value(data))
    /\ data = None => raw_text_native_value(data) = T("Initializing...")
    /\ (data # None /\ "raw_text" \in DOMAIN data) =>
          raw_text_native_value(data) = data["raw_text"]
    /\ (data # None /\ "raw_text" \notin DOMAIN data) =>
          raw_text_native_value(data) = T("Raw text not available")
C21_Witness ==
    /\ sensors_added
    /\ data # None
    /\ "summary" \notin DOMAIN data
    /\ "raw_text" \in DOMAIN data
    /\ native_value("alerts", data) = data["alerts"]
    /\ native_value("summary", data) = T("Not available")

\* len() of a part of a string: exact for the literals of the source and of
\* str.format's errors, a lower bound of one character for text from outside
StrLen(part) ==
    CASE part = "Exception: " -> 11
      [] part = "Replacement index 0 out of range for positional args tuple" -> 58
      [] part = "Single '{' encountered in format string" -> 39
      [] part = "'action_schema'" -> 15
      [] part = "Error fetching insights" -> 23
      [] part = "Raw text not available." -> 23
      [] OTHER -> 1
RECURSIVE TextLen(_)
TextLen(v) == IF v = <<>> THEN 0 ELSE StrLen(Head(v)) + TextLen(Tail(v))

\* C22: for every published result the Raw-Response sensor's value is at most
\* 50 characters long and one of its attributes holds the full raw text.
C22_RawTextTruncated ==
    (data # None /\ "raw_text" \in DOMAIN data) =>
        /\ TextLen(raw_text_native_value(data)) <= 50
        /\ \E a \in DOMAIN raw_text_extra_state_attributes(last_update_success) :
              raw_text_extra_state_attributes(last_update_success)[a] = data["raw_text"]

\* the notifications among the service calls of the cycle
Notifications == {k \in 1..Len(svc_calls) : svc_calls[k].domain = "notify"}

\* C23: in every cycle in which the Gateway returns a result, exactly one
\* notification is dispatched, and its message is the result's free-text
\* insights, whatever other fields the result has or lacks.
C23_OneNotificationWithInsights ==
    (CycleDone /\ GatewayReturnedResult) =>
        /\ Cardinality(Notifications) = 1
        /\ \A k \in Notifications : svc_calls[k].message = Some(insights["insights"])

\* ---------------------------------------------------------------------------
\* sensor.async_setup_entry: the platform setup, on the per-entry record it finds
\* ---------------------------------------------------------------------------
DEFAULT_UPDATE_INTERVAL == 1800
ApiKeys == {Nothing, Some(""), Some("test_api_key_123")}
\* ConfigEntry.data and ConfigEntry.options, as far as the setup reads them
EntryDatas == {[api_key |-> k, update_interval |-> Nothing] : k \in ApiKeys}
EntryOptions == {[update_interval |-> u] : u \in {Nothing, Some(600)}}
EntryObjects == {[data |-> d, options |-> o] : d \in EntryDatas, o \in EntryOptions}
RecordValues(key) ==
    CASE key = "entry" -> EntryObjects
      [] key = "config" -> EntryDatas
      [] key = "options" -> EntryOptions
\* the records hass.data[DOMAIN][entry_id] may hold: any of the three keys
DomainDatas ==
    UNION {{r \in [D -> EntryObjects \cup EntryDatas \cup EntryOptions] :
               \A key \in D : r[key] \in RecordValues(key)} :
           D \in SUBSET {"entry", "config", "options"}}

\* "not api_key": a missing, None or empty key
NoApiKey(k) == k = Nothing \/ k = Some("")

\* GeminiClient.__init__
GeminiClientInit(api_key) ==
    IF NoApiKey(api_key)
    THEN [kind |-> "raise", exc |-> "Gemini API key is required."]
    ELSE [kind |-> "return", exc |-> ""]

PlatformRaised(e) == [NoPlatform EXCEPT !.outcome = "raised", !.exc = Some(e)]
\* the error is logged and the function returns: no exception reaches the host
PlatformReturned == [NoPlatform EXCEPT !.outcome = "returned"]

\* sensor.async_setup_entry, refresh_ok telling whether the first refresh succeeds
async_setup_entry(record, refresh_ok) ==
    IF "config" \notin DOMAIN record THEN PlatformRaised("KeyError: 'config'")
    ELSE IF "options" \notin DOMAIN record THEN PlatformRaised("KeyError: 'options'")
    ELSE LET api_key == record["config"].api_key
             interval == Get(record["options"].update_interval,
                             Get(record["config"].update_interval,
                                 DEFAULT_UPDATE_INTERVAL))
         IN IF NoApiKey(api_key) THEN PlatformReturned
            ELSE IF GeminiClientInit(api_key).kind = "raise" THEN PlatformReturned
            ELSE IF refresh_ok
            THEN [outcome |-> "ok", exc |-> Nothing, client |-> TRUE,
                  coordinator |-> TRUE, refreshes |-> 1, sensors |-> TRUE,
                  update_interval |-> Some(interval)]
            ELSE [outcome |-> "raised", exc |-> Some("ConfigEntryNotReady"),
                  client |-> TRUE, coordinator |-> TRUE, refreshes |-> 1,
                  sensors |-> FALSE, update_interval |-> Some(interval)]

\* the parts of the program the setup does not touch
OthersIdle ==
    /\ IdleCycle
    /\ catalog = <<>>
    /\ schema_out = <<>>
    /\ stat_rows = <<>>
    /\ stats = <<>>
    /\ agg_raised = Nothing
    /\ raw_rows = <<>>
    /\ stat_fail = Nothing
    /\ RecentIdle

\* the host calls the platform setup for the entry
RunPlatformSetup ==
    /\ platform = NoPlatform
    /\ domain_data # Nothing
    /\ \E refresh_ok \in BOOLEAN :
          platform' = async_setup_entry(The(domain_data), refresh_ok)
    /\ UNCHANGED <<entry_data, entry_options, entry_state, domain_data, setups,
                   cycleVars, schemaVars, aggVars, recentVars, flowVars>>

PlatformInit ==
    /\ OthersIdle
    /\ FlowIdle
    /\ entry_data = [api_key |-> Nothing, update_interval |-> Nothing]
    /\ entry_options = [update_interval |-> Nothing]
    /\ entry_state = "not_loaded"
    /\ domain_data \in {Some(r) : r \in DomainDatas}
    /\ platform = NoPlatform
    /\ setups = 0

PlatformNext == RunPlatformSetup

SpecPlatform == PlatformInit /\ [][PlatformNext]_vars

\* the platform setup ran on a record whose configuration has no usable credential
CredentialMissing ==
    /\ platform.outcome # "none"
    /\ {"config", "options"} \subseteq DOMAIN The(domain_data)
    /\ NoApiKey(The(domain_data)["config"].api_key)

MaxSetups == 8

\* the record __init__.async_setup_entry stores for the entry
StoredRecord(edata, opts) == [entry |-> [data |-> edata, options |-> opts]]

\* async_update_options_listener, up to the reload: dd is hass.data's record of
\* the entry after the host replaced entry.options by opts
ListenerRecord(dd, edata, opts) ==
    IF dd # Nothing
    THEN LET r == The(dd)
             live == IF "entry" \in DOMAIN r
                     THEN [r EXCEPT !["entry"] = [data |-> edata, options |-> opts]]
                     ELSE r
         IN Merge(live, "options", opts)
    ELSE [config |-> edata, options |-> opts]

\* __init__.async_setup_entry with the platform setup it forwards to
SetupEntry ==
    /\ entry_state = "not_loaded"
    /\ setups < MaxSetups
    /\ setups' = setups + 1
    /\ IF entry_data.api_key = Nothing
       THEN \* entry.data[CONF_API_KEY] raises KeyError
            /\ entry_state' = "setup_error"
            /\ UNCHANGED <<domain_data, platform>>
       ELSE /\ domain_data' = Some(StoredRecord(entry_data, entry_options))
            /\ \E refresh_ok \in BOOLEAN :
                  platform' = async_setup_entry(The(domain_data'), refresh_ok)
            /\ entry_state' = "loaded"
    /\ UNCHANGED <<entry_data, entry_options,
                   cycleVars, schemaVars, aggVars, recentVars, flowVars>>

\* __init__.async_unload_entry
UnloadEntry ==
    /\ entry_state = "loaded"
    /\ \E unload_ok \in BOOLEAN :
          IF unload_ok
          THEN /\ domain_data' = Nothing
               /\ platform' = NoPlatform
               /\ entry_state' = "not_loaded"
          ELSE /\ entry_state' = "failed_unload"
               /\ UNCHANGED <<domain_data, platform>>
    /\ UNCHANGED <<entry_data, entry_options, setups,
                   cycleVars, schemaVars, aggVars, recentVars, flowVars>>

\* the options of a loaded entry are replaced: the host runs
\* async_update_options_listener, which reloads the entry (unload, then setup)
UpdateOptions ==
    /\ entry_state = "loaded"
    /\ setups < MaxSetups
    /\ \E opts \in EntryOptions, unload_ok \in BOOLEAN, refresh_ok \in BOOLEAN :
          /\ opts # entry_options
          /\ entry_options' = opts
          /\ LET listened == ListenerRecord(domain_data, entry_data, opts)
             IN IF unload_ok
                THEN /\ domain_data' = Some(StoredRecord(entry_data, opts))
                     /\ platform' = async_setup_entry(The(domain_data'), refresh_ok)
                     /\ entry_state' = "loaded"
                     /\ setups' = setups + 1
                ELSE /\ domain_data' = Some(listened)
                     /\ entry_state' = "failed_unload"
                     /\ UNCHANGED <<platform, setups>>
    /\ UNCHANGED <<entry_data, cycleVars, schemaVars, aggVars, recentVars, flowVars>>

LifecycleInit ==
    /\ OthersIdle
    /\ FlowIdle
    /\ entry_data \in EntryDatas
    /\ entry_options \in EntryOptions
    /\ entry_state = "not_loaded"
    /\ domain_data = Nothing
    /\ platform = NoPlatform
    /\ setups = 0

LifecycleNext == SetupEntry \/ UnloadEntry \/ UpdateOptions

SpecLifecycle == LifecycleInit /\ [][LifecycleNext]_vars

\* C28: whenever the platform setup has run for the entry, the record the
\* integration's setup stored holds the 'config' and 'options' keys the platform
\* setup reads, and the platform setup did not fail on a missing key.
C28_RecordHasPlatformKeys ==
    platform.outcome # "none" =>
        /\ domain_data # Nothing
        /\ {"config", "options"} \subseteq DOMAIN The(domain_data)
        /\ platform.exc \notin {Some("KeyError: 'config'"), Some("KeyError: 'options'")}

\* ---------------------------------------------------------------------------
\* config_flow.py: GeminiInsightsConfigFlow.async_step_user
\* ---------------------------------------------------------------------------
\* API keys as the characters they are made of; two share their first ten
FlowKeys ==
    {<<>>,
     <<"k">>,
     <<"a", "b", "c", "d", "e", "f", "g", "h", "i", "j", "1">>,
     <<"a", "b", "c", "d", "e", "f", "g", "h", "i", "j", "2">>,
     <<"z", "y", "x", "w", "v", "u", "t", "s", "r", "q", "p", "o">>}
\* the user_input of a submission: the key may be absent
UserInputs == {[api_key |-> k] : k \in {Nothing} \cup {Some(key) : key \in FlowKeys}}

\* user_input[CONF_API_KEY][:10]
UniqueId(key) == SubSeq(key, 1, IF Len(key) < 10 THEN Len(key) ELSE 10)

\* a plausible slip: only an absent key is refused, an empty one passes
ApiKeyMissingOnlyAbsent(user_input) == user_input.api_key = Nothing

\* "not user_input.get(CONF_API_KEY)"
ApiKeyMissing(user_input) ==
    user_input.api_key = Nothing \/ user_input.api_key = Some(<<>>)

ShowUserForm(errors) ==
    Some([type |-> "form", step_id |-> Some("user"), errors |-> errors,
          reason |-> Nothing])

\* the flow is opened: async_step_user(None) shows the empty form
OpenUserStep ==
    /\ flow_result' = ShowUserForm(Nothing)
    /\ submitted' = Nothing
    /\ UNCHANGED <<entries, registry, saved_options, cycleVars, schemaVars, aggVars,
                   recentVars, setupVars>>

\* the operator submits the form: async_step_user(user_input)
SubmitUserStep ==
    /\ \E user_input \in UserInputs :
          /\ submitted' = Some(user_input)
          /\ IF ApiKeyMissing(user_input)
             THEN /\ flow_result' = ShowUserForm(Some("api_key_required"))
                  /\ UNCHANGED entries
             ELSE LET uid == UniqueId(The(user_input.api_key))
                  IN IF \E i \in 1..Len(entries) : entries[i].unique_id = uid
                     THEN \* _abort_if_unique_id_configured
                          /\ flow_result' = Some([type |-> "abort", step_id |-> Nothing,
                                                  errors |-> Nothing,
                                                  reason |-> Some("already_configured")])
                          /\ UNCHANGED entries
                     ELSE /\ flow_result' = Some([type |-> "create_entry",
                                                  step_id |-> Nothing, errors |-> Nothing,
                                                  reason |-> Nothing])
                          /\ entries' = Append(entries,
                                 [title |-> "Gemini Insights", unique_id |-> uid,
                                  data |-> user_input])
    /\ UNCHANGED <<registry, saved_options, cycleVars, schemaVars, aggVars,
                   recentVars, setupVars>>

UserFlowInit ==
    /\ OthersIdle
    /\ SetupIdle
    /\ FlowIdle

UserFlowNext == OpenUserStep \/ SubmitUserStep

SpecUserFlow == UserFlowInit /\ [][UserFlowNext]_vars

\* the step is a submission of the user form with a non-empty key
SubmitsKey == submitted' # Nothing /\ The(submitted').api_key \notin {Nothing, Some(<<>>)}
\* an entry with the unique id of the submitted key is already configured
AlreadyConfigured ==
    \E i \in 1..Len(entries) :
        entries[i].unique_id = UniqueId(The(The(submitted').api_key))
\* the step submits an empty or absent key: no entry, the form again with the error
EmptyKeyRefused ==
    (submitted' # Nothing /\ The(submitted').api_key \in {Nothing, Some(<<>>)}) =>
        /\ entries' = entries
        /\ flow_result' = ShowUserForm(Some("api_key_required"))
CreatesOneEntry ==
    /\ Len(entries') = Len(entries) + 1
    /\ SubSeq(entries', 1, Len(entries)) = entries
    /\ entries'[Len(entries')].data = The(submitted')
    /\ The(flow_result').type = "create_entry"

\* C25 as claimed: submitting an empty API key creates no entry and shows the
\* form again with the error 'api_key_required'; submitting a non-empty key
\* creates exactly one entry whose data equals the submitted input.
C25_Original ==
    [][EmptyKeyRefused /\ (SubmitsKey => CreatesOneEntry)]_vars
\* C25 as amended: the same, except that a non-empty key whose first ten
\* characters are the unique id of an entry already configured aborts the flow
\* and creates no entry.
C25_UserStep ==
    [][/\ EmptyKeyRefused
       /\ (SubmitsKey /\ ~AlreadyConfigured) => CreatesOneEntry
       /\ (SubmitsKey /\ AlreadyConfigured) =>
             entries' = entries /\ The(flow_result').type = "abort"
      ]_vars
C25_Witness ==
    /\ Len(entries) = 2
    /\ entries[1].data = [api_key |-> Some(<<"k">>)]
    /\ submitted = Some([api_key |-> Some(<<>>)])
    /\ flow_result = ShowUserForm(Some("api_key_required"))

\* ---------------------------------------------------------------------------
\* config_flow.py: GeminiInsightsOptionsFlowHandler.async_step_init
\* ---------------------------------------------------------------------------
\* Entity ids and patterns are the sequences of their characters, so that
\* split, strip, fnmatch and sorted work on them as they do on Python strings.
LightKitchen == <<"l", ".", "k">>
SensorKitchen == <<"s", ".", "k">>
SensorOutside == <<"s", ".", "o">>
LightHall == <<"l", ".", "h">>
\* area_reg.areas: area id to area name
AreaNames == [a \in {"kitchen"} |-> "Kitchen"]
\* ent_reg.entities without the disabled_by flag; the hall's area is not registered
RegistryEntries ==
    (LightKitchen :> [domain |-> "light", area_id |-> Some("kitchen")])
    @@ (SensorKitchen :> [domain |-> "sensor", area_id |-> Some("kitchen")])
    @@ (SensorOutside :> [domain |-> "sensor", area_id |-> Nothing])
    @@ (LightHall :> [domain |-> "light", area_id |-> Some("hall")])
Registries ==
    {[e \in DOMAIN RegistryEntries |->
         [domain |-> RegistryEntries[e].domain, area_id |-> RegistryEntries[e].area_id,
          disabled |-> e \in off] ] : off \in SUBSET {SensorKitchen, LightHall}}

\* str.split(',')
RECURSIVE Split(_)
Split(str) ==
    IF str = <<>> THEN << <<>> >>
    ELSE IF Head(str) = "," THEN << <<>> >> \o Split(Tail(str))
    ELSE LET rest == Split(Tail(str))
         IN << <<Head(str)>> \o Head(rest) >> \o Tail(rest)
\* str.strip(), of blanks
RECURSIVE StripLeft(_)
StripLeft(str) ==
    IF str # <<>> /\ Head(str) = " " THEN StripLeft(Tail(str)) ELSE str
RECURSIVE StripRight(_)
StripRight(str) ==
    IF str # <<>> /\ str[Len(str)] = " "
    THEN StripRight(SubSeq(str, 1, Len(str) - 1)) ELSE str
Strip(str) == StripRight(StripLeft(str))
NonEmpty(str) == str # <<>>
\* [p.strip() for p in patterns_str.split(',') if p.strip()]
PatternList(patterns_str) ==
    LET parts == Split(patterns_str)
    IN SelectSeq([i \in 1..Len(parts) |-> Strip(parts[i])], NonEmpty)

\* fnmatch.fnmatch(name, pat) for patterns of literals, * and ?
RECURSIVE Glob(_, _)
Glob(pat, name) ==
    IF pat = <<>> THEN name = <<>>
    ELSE IF Head(pat) = "*"
    THEN Glob(Tail(pat), name) \/ (name # <<>> /\ Glob(pat, Tail(name)))
    ELSE IF name = <<>> THEN FALSE
    ELSE IF Head(pat) = "?" THEN Glob(Tail(pat), Tail(name))
    ELSE Head(pat) = Head(name) /\ Glob(Tail(pat), Tail(name))
\* fnmatch.filter(names, pat)
FnmatchFilter(names, pat) == {n \in names : Glob(pat, n)}

\* ord(c) of the characters entity ids are made of here
Ord(c) ==
    CASE c = "." -> 46
      [] c = "h" -> 104
      [] c = "k" -> 107
      [] c = "l" -> 108
      [] c = "o" -> 111
      [] c = "s" -> 115
\* a < b for Python strings
RECURSIVE StrLess(_, _)
StrLess(a, b) ==
    IF b = <<>> THEN FALSE
    ELSE IF a = <<>> THEN TRUE
    ELSE IF Head(a) = Head(b) THEN StrLess(Tail(a), Tail(b))
    ELSE Ord(Head(a)) < Ord(Head(b))
\* sorted(list(names))
RECURSIVE Sorted(_)
Sorted(names) ==
    IF names = {} THEN <<>>
    ELSE LET least == CHOOSE x \in names : \A y \in names \ {x} : StrLess(x, y)
         IN <<least>> \o Sorted(names \ {least})

\* user_input.get(key, default)
InputGet(user_input, key, default) ==
    IF key \in DOMAIN user_input THEN user_input[key] ELSE default

\* enabled_entities / enabled_entity_ids
EnabledEntityIds(reg) == {e \in DOMAIN reg : ~reg[e].disabled}
\* area_name of an entity: None unless its area id is in the area registry
AreaName(reg, e) ==
    IF reg[e].area_id # Nothing /\ The(reg[e].area_id) \in DOMAIN AreaNames
    THEN Some(AreaNames[The(reg[e].area_id)]) ELSE Nothing
\* the loop over enabled_entities: domain_ok or area_ok
SelectedByCategory(reg, user_input) ==
    {e \in EnabledEntityIds(reg) :
        \/ reg[e].domain \in InputGet(user_input, "domains", {})
        \/ /\ AreaName(reg, e) # Nothing
           /\ The(AreaName(reg, e)) \in InputGet(user_input, "areas", {})}
\* selected_entities.update(fnmatch.filter(enabled_entity_ids, pattern)) per pattern
AddIncluded(reg, selected, patterns_str) ==
    selected \cup UNION {FnmatchFilter(EnabledEntityIds(reg), PatternList(patterns_str)[i]) :
                            i \in 1..Len(PatternList(patterns_str))}
\* selected_entities -= entities_to_remove
RemoveExcluded(selected, patterns_str) ==
    selected \ UNION {FnmatchFilter(selected, PatternList(patterns_str)[i]) :
                         i \in 1..Len(PatternList(patterns_str))}

\* a plausible slip: the exclude patterns are applied before the include patterns
ResolveEntitiesExcludeFirst(reg, user_input) ==
    Sorted(AddIncluded(reg,
               RemoveExcluded(SelectedByCategory(reg, user_input),
                              InputGet(user_input, "exclude_patterns", <<>>)),
               InputGet(user_input, "include_patterns", <<>>)))

\* the final entity list of a submission
ResolveEntities(reg, user_input) ==
    Sorted(RemoveExcluded(
               AddIncluded(reg, SelectedByCategory(reg, user_input),
                           InputGet(user_input, "include_patterns", <<>>)),
               InputGet(user_input, "exclude_patterns", <<>>)))

\* pattern strings an operator may type
PatternStrings ==
    {<<>>,
     <<"l", ".", "*">>,
     <<"*", ".", "k">>,
     <<" ", "s", ".", "o", " ", ",", ",", "?", ".", "h">>,
     <<"*">>}
\* what the form submits: every field of the form
FormInputs ==
    {[domains |-> d, areas |-> a, include_patterns |-> i, exclude_patterns |-> x,
      prompt |-> T("New custom prompt"), update_interval |-> 300] :
        d \in SUBSET {"light", "sensor"}, a \in SUBSET {"Kitchen"},
        i \in PatternStrings, x \in PatternStrings}
\* what tests/test_config_flow.py submits: an entity list, no category field
TestInputs ==
    {[entities |-> <<SensorKitchen, LightKitchen>>, prompt |-> T("New custom prompt"),
      update_interval |-> 300]}
OptionInputs == FormInputs \cup TestInputs

\* async_step_init(None): the form is shown
OpenOptionsStep ==
    /\ flow_result' = Some([type |-> "form", step_id |-> Some("init"),
                            errors |-> Nothing, reason |-> Nothing])
    /\ submitted' = Nothing
    /\ UNCHANGED <<entries, registry, saved_options, cycleVars, schemaVars, aggVars,
                   recentVars, setupVars>>

\* async_step_init(user_input): the entity list is resolved, stored under
\* CONF_ENTITIES in user_input, and user_input becomes the entry's options
SubmitOptions ==
    /\ \E user_input \in OptionInputs :
          /\ submitted' = Some(user_input)
          /\ saved_options' =
                Some(Merge(user_input, "entities", ResolveEntities(registry, user_input)))
    /\ flow_result' = Some([type |-> "create_entry", step_id |-> Nothing,
                            errors |-> Nothing, reason |-> Nothing])
    /\ UNCHANGED <<entries, registry, cycleVars, schemaVars, aggVars, recentVars,
                   setupVars>>

OptionsFlowInit ==
    /\ OthersIdle
    /\ SetupIdle
    /\ entries = <<>>
    /\ flow_result = Nothing
    /\ registry \in Registries
    /\ submitted = Nothing
    /\ saved_options = Nothing

OptionsFlowNext == OpenOptionsStep \/ SubmitOptions

SpecOptionsFlow == OptionsFlowInit /\ [][OptionsFlowNext]_vars

\* C26: the options the options flow saves equal the options the operator
\* submitted: no key is added and none is overwritten.
C26_SavedEqualsSubmitted ==
    (submitted # Nothing /\ saved_options # Nothing) =>
        The(saved_options) = The(submitted)

\* the entity ids of a saved list
Saved == The(saved_options)["entities"]
SavedSet == {Saved[k] : k \in 1..Len(Saved)}
\* the entity matches one of the comma-separated patterns of the submitted field
Matches(e, field) ==
    \E k \in 1..Len(PatternList(InputGet(The(submitted), field, <<>>))) :
        Glob(PatternList(InputGet(The(submitted), field, <<>>))[k], e)
\* the entity's domain, or the name of its registered area, is selected
CategorySelected(e) ==
    \/ registry[e].domain \in InputGet(The(submitted), "domains", {})
    \/ \E a \in DOMAIN AreaNames :
          /\ registry[e].area_id = Some(a)
          /\ AreaNames[a] \in InputGet(The(submitted), "areas", {})

NotificationFailed ==
    \E k \in Notifications : svc_calls[k].raised

\* C29: the notification is best-effort: when the notification call fails in a
\* cycle where the Gateway returned a result, that result is still the published
\* record, not an error placeholder.
C29_NotificationBestEffort ==
    (CycleDone /\ GatewayReturnedResult /\ NotificationFailed) =>
        /\ data = insights
        /\ data # ExceptionResult("ServiceNotFound")

====
